---- MODULE Spec2Model ----
(***************************************************************************)
(* A model of the bindy BIND9 operator: the kopf handlers for Instance,    *)
(* Zone and Record resources, the resource applier they call, the config   *)
(* synthesizer, the record validator and the per-instance health daemon.   *)
(*                                                                         *)
(* Conventions.  A Python dict is a TLA+ function whose DOMAIN is the set  *)
(* of keys that are present.  A piece of text is a sequence of fragments   *)
(* (strings); an IPv4 address is spelled one character per fragment, and   *)
(* in every other text "@" is a fragment of its own.  All resources live   *)
(* in a single namespace.  A rendered template is the record of the values *)
(* substituted for its placeholders (the text around them is constant).    *)
(***************************************************************************)
EXTENDS Integers, Sequences, FiniteSets, TLC

VARIABLES
    instances,   \* Bind9Instance resources:  name -> [uid, spec, pending, diff]
    zones,       \* DNSZone resources:        name -> [uid, spec, pending, diff]
    store,       \* the object store: <<kind, name>> -> artifact
    gone,        \* owners deleted and not yet collected: {[kind, name, uid]}
    nextUid,     \* the uid the store gives to the next resource created
    today,       \* the calendar date datetime.now() falls on (YYYYMMDD)
    faults,      \* store calls that have failed so far
    daemon,      \* health daemons: name -> [pc, stopped, result, logged, wait]
    log,         \* the last handler run: its calls, its outcome, the store it left
    applies      \* create_configmap calls in flight: id -> [pc, data, uid, raised, wrote]

vars == <<instances, zones, store, gone, nextUid, today, faults, daemon, log, applies>>

(***************************************************************************)
(* Bounds of the model.                                                    *)
(***************************************************************************)
MaxUid == 2
MaxDay == 2
MaxFaults == 1

(***************************************************************************)
(* Python values and text.                                                 *)
(***************************************************************************)
EmptyDict == [k \in {} |-> 0]

Get(d, k, default) == IF k \in DOMAIN d THEN d[k] ELSE default

\* Values of a record's type-specific fields, which the user may set to
\* anything: a str, an int, or nothing at all (dict.get gives None).
PyStr(s) == [t |-> "str", v |-> s, n |-> 0]
PyInt(i) == [t |-> "int", v |-> <<>>, n |-> i]
PyNone == [t |-> "NoneType", v |-> <<>>, n |-> 0]

\* Python's truth value: None, "" and 0 are false.
Truthy(x) ==
    CASE x.t = "str" -> Len(x.v) > 0
      [] x.t = "int" -> x.n # 0
      [] OTHER -> FALSE

RECURSIVE Join(_, _)
\* sep.join(list) over a list of strings.
Join(list, sep) ==
    IF Len(list) = 0 THEN ""
    ELSE IF Len(list) = 1 THEN list[1]
    ELSE list[1] \o sep \o Join(Tail(list), sep)

\* str.replace(old, new) on a text in which old is a fragment of its own.
Replace(text, old, new) ==
    [i \in 1..Len(text) |-> IF text[i] = old THEN new ELSE text[i]]

Digits == {"0", "1", "2", "3", "4", "5", "6", "7", "8", "9"}

\* Four runs of one to three digits separated by single dots.
DottedQuadSyntax(s) ==
    LET dots == {i \in 1..Len(s) : s[i] = "."}
        cuts == dots \cup {0, Len(s) + 1}
        RunAfter(i) == (CHOOSE j \in cuts : j > i /\ \A k \in cuts : k > i => j <= k) - i - 1
    IN  /\ Cardinality(dots) = 3
        /\ \A i \in 1..Len(s) : s[i] \in Digits \cup {"."}
        /\ \A i \in dots \cup {0} : RunAfter(i) \in 1..3

\* re.match(r"^(\d{1,3}\.){3}\d{1,3}$", s): "$" matches at the end of the
\* string and also just before a newline that ends the string.
MatchIPv4Pattern(s) ==
    \/ DottedQuadSyntax(s)
    \/ /\ Len(s) > 0
       /\ s[Len(s)] = "\n"
       /\ DottedQuadSyntax(SubSeq(s, 1, Len(s) - 1))

(***************************************************************************)
(* Config synthesizer (operator/config/bind9.py).                          *)
(***************************************************************************)
\* A synthesizer that turns recursion on unless the spec turns it off.
generate_bind9_config_recursion_on(spec, instance_name) ==
    LET config == Get(spec, "config", EmptyDict)
    IN  [instance_name |-> instance_name,
         allow_query |-> Join(Get(config, "allowQuery", <<"any">>), " "),
         allow_transfer |-> Join(Get(config, "allowTransfer", <<"none">>), " "),
         recursion |-> IF Get(config, "recursion", TRUE) THEN "yes" ELSE "no",
         dnssec_validation |->
             IF Get(Get(config, "dnssec", EmptyDict), "enabled", FALSE)
             THEN "auto" ELSE "no"]

generate_bind9_config(spec, instance_name) ==
    LET config == Get(spec, "config", EmptyDict)
    IN  [instance_name |-> instance_name,
         allow_query |-> Join(Get(config, "allowQuery", <<"any">>), " "),
         allow_transfer |-> Join(Get(config, "allowTransfer", <<"none">>), " "),
         recursion |-> IF Get(config, "recursion", FALSE) THEN "yes" ELSE "no",
         dnssec_validation |->
             IF Get(Get(config, "dnssec", EmptyDict), "enabled", FALSE)
             THEN "auto" ELSE "no"]

\* int(datetime.now().strftime("%Y%m%d01")) on the day `date`.
DateSerial(date) == date * 100 + 1

generate_zone_file(spec, zone_name, date) ==
    LET soa == Get(spec, "soaRecord", EmptyDict)
        serial == Get(soa, "serial", DateSerial(date))
    IN  [zone_name |-> zone_name,
         ttl |-> Get(spec, "ttl", 3600),
         primary_ns |-> Get(soa, "primaryNS", <<"ns1.">> \o zone_name \o <<".">>),
         admin_email |->
             Replace(Get(soa, "adminEmail", <<"admin.">> \o zone_name \o <<".">>),
                     "@", "."),
         serial |-> serial,
         refresh |-> Get(soa, "refresh", 3600),
         retry |-> Get(soa, "retry", 600),
         expire |-> Get(soa, "expire", 604800),
         minimum |-> Get(soa, "negativeTTL", 86400),
         \* the lines after "; Records will be added here"
         entries |-> {}]

(***************************************************************************)
(* Validator (operator/utils/validation.py).  A validator returns "ok" or  *)
(* the exception it raises.                                                *)
(***************************************************************************)
validate_a_record(spec) ==
    LET ipv4 == Get(spec, "ipv4Address", PyNone)
    IN  IF ~Truthy(ipv4) THEN "ValueError"
        ELSE IF ipv4.t # "str" THEN "TypeError"  \* re.match on a non-string
        ELSE IF ~MatchIPv4Pattern(ipv4.v) THEN "ValueError"
        ELSE "ok"

validate_aaaa_record(spec) ==
    IF ~Truthy(Get(spec, "ipv6Address", PyNone)) THEN "ValueError" ELSE "ok"

validate_cname_record(spec) ==
    IF ~Truthy(Get(spec, "target", PyNone)) THEN "ValueError" ELSE "ok"

\* An MX check that is content with either of the two fields.
validate_mx_record_needs_one_field(spec) ==
    IF "priority" \notin DOMAIN spec /\ "mailServer" \notin DOMAIN spec
    THEN "ValueError" ELSE "ok"

validate_mx_record(spec) ==
    IF "priority" \notin DOMAIN spec \/ "mailServer" \notin DOMAIN spec
    THEN "ValueError" ELSE "ok"

validate_dns_record(record_type, spec) ==
    CASE record_type = "A" -> validate_a_record(spec)
      [] record_type = "AAAA" -> validate_aaaa_record(spec)
      [] record_type = "CNAME" -> validate_cname_record(spec)
      [] record_type = "MX" -> validate_mx_record(spec)
      [] OTHER -> "ok"

(***************************************************************************)
(* The object store (external).  create fails with Conflict when the       *)
(* identity exists; patch replaces the managed fields of an existing       *)
(* object and fails when there is none.  `fault` is what the environment   *)
(* does to the call: "none", "ApiError" (an ApiException whose status is   *)
(* not 409, such as 500) or "Timeout" (an exception that is no             *)
(* ApiException, such as a connection timeout).                            *)
(***************************************************************************)
Faults == {"none", "ApiError", "Timeout"}

\* The statuses a call ends with that are raised as ApiException.
ApiExceptions == {"Conflict", "ApiError", "NotFound"}

StoreCreate(st, key, body, fault) ==
    IF fault # "none" THEN [st |-> st, status |-> fault]
    ELSE IF key \in DOMAIN st THEN [st |-> st, status |-> "Conflict"]
    ELSE [st |-> (key :> body) @@ st, status |-> "Created"]

StorePatch(st, key, body, fault) ==
    IF fault # "none" THEN [st |-> st, status |-> fault]
    ELSE IF key \notin DOMAIN st THEN [st |-> st, status |-> "NotFound"]
    ELSE [st |-> [st EXCEPT ![key] = body], status |-> "Patched"]

\* Deleting owner o removes every object that names o as an owner.
StoreCascade(st, o) ==
    LET kept == {k \in DOMAIN st :
                    \A i \in 1..Len(st[k].owner_references) :
                        LET r == st[k].owner_references[i]
                        IN  ~(r.kind = o.kind /\ r.name = o.name /\ r.uid = o.uid)}
    IN  [k \in kept |-> st[k]]

Call(api, target, status) == [api |-> api, target |-> target, status |-> status]

(***************************************************************************)
(* Resource applier (operator/kubernetes/resources.py).  Each operator     *)
(* returns the store it leaves, the calls it made and the exception it     *)
(* raises ("none" when it returns normally).                               *)
(***************************************************************************)
V1OwnerReference(name, uid, controller) ==
    [kind |-> "Bind9Instance", name |-> name, uid |-> uid, controller |-> controller]

\* An applier whose patch sends the data alone, without the metadata.
create_configmap_patches_data_only(st, name, data, uid, cm_type, f) ==
    LET cm_name == name \o "-" \o cm_type
        key == <<"ConfigMap", cm_name>>
        configmap == [kind |-> "ConfigMap",
                      owner_references |-> <<V1OwnerReference(name, uid, FALSE)>>,
                      spec |-> [file |-> cm_type \o ".conf", text |-> data]]
        c == StoreCreate(st, key, configmap, f.create)
        p == StorePatch(st, key, [configmap EXCEPT !.owner_references = <<>>], f.patch)
    IN  IF c.status = "Created"
        THEN [st |-> c.st, calls |-> <<Call("create", cm_name, c.status)>>,
              raised |-> "none"]
        ELSE IF c.status \notin ApiExceptions
        THEN [st |-> st, calls |-> <<Call("create", cm_name, c.status)>>,
              raised |-> c.status]
        ELSE IF c.status = "Conflict"
        THEN [st |-> p.st,
              calls |-> <<Call("create", cm_name, c.status),
                          Call("patch", cm_name, p.status)>>,
              raised |-> IF p.status = "Patched" THEN "none" ELSE p.status]
        ELSE [st |-> st, calls |-> <<Call("create", cm_name, c.status)>>,
              raised |-> "none"]

create_configmap(st, name, data, uid, cm_type, f) ==
    LET cm_name == name \o "-" \o cm_type
        key == <<"ConfigMap", cm_name>>
        configmap == [kind |-> "ConfigMap",
                      owner_references |-> <<V1OwnerReference(name, uid, FALSE)>>,
                      spec |-> [file |-> cm_type \o ".conf", text |-> data]]
        c == StoreCreate(st, key, configmap, f.create)
        p == StorePatch(st, key, configmap, f.patch)
    IN  IF c.status = "Created"
        THEN [st |-> c.st, calls |-> <<Call("create", cm_name, c.status)>>,
              raised |-> "none"]
        ELSE IF c.status \notin ApiExceptions
        THEN [st |-> st, calls |-> <<Call("create", cm_name, c.status)>>,
              raised |-> c.status]
        ELSE IF c.status = "Conflict"
        THEN [st |-> p.st,
              calls |-> <<Call("create", cm_name, c.status),
                          Call("patch", cm_name, p.status)>>,
              raised |-> IF p.status = "Patched" THEN "none" ELSE p.status]
        \* an ApiException that is no conflict: caught, nothing re-raised
        ELSE [st |-> st, calls |-> <<Call("create", cm_name, c.status)>>,
              raised |-> "none"]

create_bind9_statefulset(st, spec, name, uid, f) ==
    LET sts_name == name \o "-bind9"
        key == <<"StatefulSet", sts_name>>
        statefulset ==
            [kind |-> "StatefulSet",
             owner_references |-> <<V1OwnerReference(name, uid, TRUE)>>,
             spec |-> [service_name |-> name \o "-headless",
                       replicas |-> Get(spec, "replicas", 1),
                       image |-> Get(spec, "version",
                                     "internetsystemsconsortium/bind9:9.18"),
                       volumes |-> <<name \o "-config", name \o "-zones">>]]
        c == StoreCreate(st, key, statefulset, f.create)
        p == StorePatch(st, key, statefulset, f.patch)
    IN  IF c.status = "Created"
        THEN [st |-> c.st, calls |-> <<Call("create", sts_name, c.status)>>,
              raised |-> "none"]
        ELSE IF c.status \notin ApiExceptions
        THEN [st |-> st, calls |-> <<Call("create", sts_name, c.status)>>,
              raised |-> c.status]
        ELSE IF c.status = "Conflict"
        THEN [st |-> p.st,
              calls |-> <<Call("create", sts_name, c.status),
                          Call("patch", sts_name, p.status)>>,
              raised |-> IF p.status = "Patched" THEN "none" ELSE p.status]
        ELSE [st |-> st, calls |-> <<Call("create", sts_name, c.status)>>,
              raised |-> "none"]

\* An applier that patches the service it finds in the store.
create_bind9_services_patches(st, name, uid, f) ==
    LET svc_name == name \o "-dns"
        key == <<"Service", svc_name>>
        service == [kind |-> "Service",
                    owner_references |-> <<V1OwnerReference(name, uid, FALSE)>>,
                    spec |-> [selector |-> name \o "-bind9", type |-> "LoadBalancer"]]
        c == StoreCreate(st, key, service, f.create)
    IN  [st |-> IF c.status = "Conflict" THEN [st EXCEPT ![key] = service] ELSE c.st,
         calls |-> <<Call("create", svc_name, c.status)>>,
         raised |-> IF c.status \in {"Created", "Conflict"} THEN "none" ELSE c.status]

create_bind9_services(st, name, uid, f) ==
    LET svc_name == name \o "-dns"
        key == <<"Service", svc_name>>
        service == [kind |-> "Service",
                    owner_references |-> <<V1OwnerReference(name, uid, FALSE)>>,
                    spec |-> [selector |-> name \o "-bind9", type |-> "LoadBalancer"]]
        c == StoreCreate(st, key, service, f.create)
    IN  [st |-> c.st,
         calls |-> <<Call("create", svc_name, c.status)>>,
         raised |-> IF c.status \in {"Created", "Conflict"} THEN "none" ELSE c.status]

\* A stub: it logs and returns.
reload_bind9_config(instance_name) ==
    [calls |-> <<Call("reload", instance_name, "logged")>>, raised |-> "none"]

\* A stub: it logs and returns; the store is not touched.
update_zone_file(st, zone_ref, record_name, record_type, spec) ==
    [st |-> st, calls |-> <<Call("update_zone_file", zone_ref, "logged")>>,
     raised |-> "none"]

(***************************************************************************)
(* Handlers (operator/handlers).  Each operator is one handler run: it     *)
(* returns the store it leaves, the calls it made in order, the text it    *)
(* synthesized and its outcome, which is what it returns to kopf or the    *)
(* kopf error it raises.                                                   *)
(***************************************************************************)
Returned(kind, serial) == [kind |-> kind, delay |-> 0, serial |-> serial]

TemporaryError(delay) == [kind |-> "TemporaryError", delay |-> delay, serial |-> 0]

PermanentError == [kind |-> "PermanentError", delay |-> 0, serial |-> 0]

Run(st, calls, text, outcome) ==
    [st |-> st, calls |-> calls, text |-> text, outcome |-> outcome]

create_bind9_instance(st, spec, name, uid, f) ==
    LET config_data == generate_bind9_config(spec, name)
        cm == create_configmap(st, name, config_data, uid, "config", f.cm)
        sts == create_bind9_statefulset(cm.st, spec, name, uid, f.sts)
        svc == create_bind9_services(sts.st, name, uid, f.svc)
    IN  IF cm.raised # "none"
        THEN Run(cm.st, cm.calls, config_data, TemporaryError(30))
        ELSE IF sts.raised # "none"
        THEN Run(sts.st, cm.calls \o sts.calls, config_data, TemporaryError(30))
        ELSE IF svc.raised # "none"
        THEN Run(svc.st, cm.calls \o sts.calls \o svc.calls, config_data,
                 TemporaryError(30))
        ELSE Run(svc.st, cm.calls \o sts.calls \o svc.calls, config_data,
                 Returned("Ready", 0))

\* diff: the fields the handler takes the items of kopf's diff to name.
update_bind9_instance(st, spec, name, uid, diff, f) ==
    LET config_data == generate_bind9_config(spec, name)
        cm == create_configmap(st, name, config_data, uid, "config", f.cm)
        sts == create_bind9_statefulset(cm.st, spec, name, uid, f.sts)
    IN  IF cm.raised # "none"
        THEN Run(cm.st, cm.calls, config_data, TemporaryError(30))
        ELSE IF diff \cap {"replicas", "image", "resources"} = {}
        THEN Run(cm.st, cm.calls, config_data, Returned("Ready", 0))
        ELSE IF sts.raised # "none"
        THEN Run(sts.st, cm.calls \o sts.calls, config_data, TemporaryError(30))
        ELSE Run(sts.st, cm.calls \o sts.calls, config_data, Returned("Ready", 0))

\* Kubernetes cleans up through the owner references.
delete_bind9_instance(st, spec, name) ==
    Run(st, <<>>, EmptyDict, Returned("deleted", 0))

\* The handler reads the clock twice: generate_zone_file reads it at `date`
\* for an absent soaRecord.serial, the handler reads it again at `now` for
\* the serial of the status.
manage_dns_zone(st, spec, name, uid, date, now, f) ==
    LET zone_name == Get(spec, "zoneName", <<"None">>)
        zone_content == generate_zone_file(spec, zone_name, date)
        cm == create_configmap(st, name, zone_content, uid, "zone", f.cm)
        bind_instance == Get(spec, "bind9InstanceRef", "default")
        reload == reload_bind9_config(bind_instance)
        serial == DateSerial(now)
    IN  IF cm.raised # "none"
        THEN Run(cm.st, cm.calls, zone_content, TemporaryError(30))
        ELSE Run(cm.st, cm.calls \o reload.calls, zone_content,
                 Returned("Active", serial))

\* A delete handler that removes the zone file itself.
delete_dns_zone_removes_zone_file(st, spec, name) ==
    LET bind_instance == Get(spec, "bind9InstanceRef", "default")
        reload == reload_bind9_config(bind_instance)
        kept == DOMAIN st \ {<<"ConfigMap", name \o "-zone">>}
    IN  Run([k \in kept |-> st[k]], reload.calls, EmptyDict, Returned("deleted", 0))

delete_dns_zone(st, spec, name) ==
    LET bind_instance == Get(spec, "bind9InstanceRef", "default")
        reload == reload_bind9_config(bind_instance)
    IN  Run(st, reload.calls, EmptyDict, Returned("deleted", 0))

\* A handler that writes the record before it validates it.
handle_record_mutates_first(st, record_type, spec, name) ==
    LET valid == validate_dns_record(record_type, spec)
        zone_ref == Get(spec, "zone", "None")
        upd == update_zone_file(st, zone_ref, name, record_type, spec)
    IN  IF valid = "ValueError"
        THEN Run(upd.st, upd.calls \o <<Call("validate", name, valid)>>, EmptyDict,
                 PermanentError)
        ELSE IF valid # "ok"
        THEN Run(upd.st, upd.calls \o <<Call("validate", name, valid)>>, EmptyDict,
                 TemporaryError(30))
        ELSE Run(upd.st, upd.calls \o <<Call("validate", name, valid)>>, EmptyDict,
                 Returned("active", 0))

handle_record(st, record_type, spec, name) ==
    LET valid == validate_dns_record(record_type, spec)
        zone_ref == Get(spec, "zone", "None")
        upd == update_zone_file(st, zone_ref, name, record_type, spec)
    IN  IF valid = "ValueError"
        THEN Run(st, <<Call("validate", name, valid)>>, EmptyDict, PermanentError)
        ELSE IF valid # "ok"
        THEN Run(st, <<Call("validate", name, valid)>>, EmptyDict, TemporaryError(30))
        ELSE Run(upd.st, <<Call("validate", name, valid)>> \o upd.calls, EmptyDict,
                 Returned("active", 0))

(***************************************************************************)
(* Health daemon (operator/handlers/instance.py, operator/utils/dns.py).   *)
(***************************************************************************)
\* answered: the resolver got a reply; logging: logger.error returned.
\* The result is what the function returns, or "Exception" when one escapes.
test_dns_functionality(answered, logging) ==
    IF answered THEN "True"
    ELSE IF logging THEN "False"
    ELSE "Exception"

\* One pass of the loop body: what is logged and the wait that follows.
monitor_bind9_health(result) ==
    IF result = "True" THEN [logged |-> "none", wait |-> 60]
    ELSE IF result = "False" THEN [logged |-> "error", wait |-> 60]
    ELSE [logged |-> "exception", wait |-> 120]

(***************************************************************************)
(* The resources users create, and the events the scheduler delivers.      *)
(***************************************************************************)
InstanceNames == {"ns1"}

ZoneNames == {"example"}

RecordNames == {"www"}

InstanceSpecs ==
    {EmptyDict,
     [replicas |-> 2,
      config |-> [recursion |-> TRUE, allowQuery |-> <<"10.0.0.0/8", "localhost">>]],
     [version |-> "bind9:9.19", config |-> [dnssec |-> [enabled |-> TRUE]]]}

ZoneSpecs ==
    {[zoneName |-> <<"example.com">>],
     [zoneName |-> <<"example.com">>, ttl |-> 3600, bind9InstanceRef |-> "ns1",
      soaRecord |-> [primaryNS |-> <<"ns1.example.com.">>,
                     adminEmail |-> <<"admin", "@", "example.com">>,
                     serial |-> 2024010101]],
     [zoneName |-> <<"example.com">>, ttl |-> 300,
      soaRecord |-> [adminEmail |-> <<"hostmaster", "@", "example.com">>]]}

RecordTypes == {"A", "AAAA", "CNAME", "MX", "TXT", "NS", "SRV", "PTR", "CAA", "NAPTR"}

RecordSpecs ==
    {[zone |-> "example"],
     [zone |-> "example", ipv4Address |-> PyStr(<<"1", "9", "2", ".", "0", ".", "2", ".", "1">>)],
     [zone |-> "example",
      ipv4Address |-> PyStr(<<"9", "9", "9", ".", "9", "9", "9", ".",
                              "9", "9", "9", ".", "9", "9", "9">>)],
     [zone |-> "example", ipv4Address |-> PyStr(<<"1", ".", "2", ".", "3">>)],
     [zone |-> "example", ipv4Address |-> PyStr(<<"1", ".", "2", ".", "3", ".", "4", ".", "5">>)],
     [zone |-> "example", ipv4Address |-> PyStr(<<"1", "2", "3", "4", ".", "1", ".", "1", ".", "1">>)],
     [zone |-> "example", ipv4Address |-> PyStr(<<"a", ".", "b", ".", "c", ".", "d">>)],
     [zone |-> "example", ipv4Address |-> PyStr(<<>>)],
     [zone |-> "example", ipv4Address |-> PyInt(5)],
     [zone |-> "example", ipv4Address |-> PyInt(0)],
     [zone |-> "example", ipv6Address |-> PyStr(<<"2001:db8::1">>)],
     [zone |-> "example", ipv6Address |-> PyStr(<<>>)],
     [zone |-> "example", target |-> PyStr(<<"host.example.com.">>)],
     [zone |-> "example", target |-> PyStr(<<>>)],
     [zone |-> "example", priority |-> PyInt(10), mailServer |-> PyStr(<<"mail.example.com">>)],
     [zone |-> "example", priority |-> PyInt(10)],
     [zone |-> "example", mailServer |-> PyStr(<<"mail.example.com">>)],
     [zone |-> "example", priority |-> PyNone, mailServer |-> PyStr(<<>>)],
     [zone |-> "example", ipv6Address |-> PyInt(0)],
     [zone |-> "example", target |-> PyInt(7)]}

Days == 20240101 .. (20240100 + MaxDay)

NoResource == [uid |-> 0, spec |-> EmptyDict, pending |-> "none", diff |-> {}]

NoDaemon == [pc |-> "off", stopped |-> FALSE, result |-> "none", logged |-> "none", wait |-> 0]

\* The create_configmap calls that may be in flight at once, and a call that
\* has not been made.
ApplyIds == {1, 2}

NoApply == [pc |-> "idle", data |-> EmptyDict, uid |-> 0, raised |-> "none", wrote |-> 0]

NoRun ==
    [handler |-> "none", event |-> "none", name |-> "", uid |-> 0, rtype |-> "",
     spec |-> EmptyDict, text |-> EmptyDict, calls |-> <<>>,
     outcome |-> Returned("none", 0), st |-> EmptyDict]

LogOf(handler, event, name, uid, rtype, spec, run) ==
    [handler |-> handler, event |-> event, name |-> name, uid |-> uid, rtype |-> rtype,
     spec |-> spec, text |-> run.text, calls |-> run.calls, outcome |-> run.outcome,
     st |-> run.st]

\* The store calls of a run that failed.
Failed(calls) ==
    Cardinality({i \in 1..Len(calls) : calls[i].status \in {"ApiError", "Timeout", "NotFound"}})

NoFault == [create |-> "none", patch |-> "none"]

\* One failing call: the create, or the patch that follows a conflict.
OneFault == {[NoFault EXCEPT ![c] = x] : c \in {"create", "patch"}, x \in Faults \ {"none"}}

\* What the store does to the calls of one handler run, within the budget.
InstanceFaults ==
    LET none == [cm |-> NoFault, sts |-> NoFault, svc |-> NoFault]
    IN  {none} \cup
        IF faults >= MaxFaults THEN {}
        ELSE {[none EXCEPT ![a] = x] : a \in {"cm", "sts", "svc"}, x \in OneFault}

ZoneFaults ==
    {[cm |-> NoFault]} \cup
    IF faults >= MaxFaults THEN {} ELSE {[cm |-> x] : x \in OneFault}

\* The top-level fields in which two specs differ.
Changed(old, new) ==
    {k \in DOMAIN old \cup DOMAIN new :
        IF k \in DOMAIN old /\ k \in DOMAIN new THEN old[k] # new[k] ELSE TRUE}

Init ==
    /\ instances = [n \in InstanceNames |-> NoResource]
    /\ zones = [z \in ZoneNames |-> NoResource]
    /\ store = EmptyDict
    /\ gone = {}
    /\ nextUid = 1
    /\ today = 20240101
    /\ faults = 0
    /\ daemon = [n \in InstanceNames |-> NoDaemon]
    /\ log = NoRun
    /\ applies = [i \in ApplyIds |-> NoApply]

(***************************************************************************)
(* Instance events.                                                        *)
(***************************************************************************)
UserCreateInstance(n, s) ==
    /\ instances[n].uid = 0
    /\ daemon[n].pc \in {"off", "done"}
    /\ nextUid <= MaxUid
    /\ instances' = [instances EXCEPT ![n] =
            [uid |-> nextUid, spec |-> s, pending |-> "create", diff |-> {}]]
    /\ nextUid' = nextUid + 1
    /\ daemon' = [daemon EXCEPT ![n] = [NoDaemon EXCEPT !.pc = "loop"]]
    /\ UNCHANGED <<zones, store, gone, today, faults, log, applies>>

UserUpdateInstance(n, s) ==
    /\ instances[n].uid # 0
    /\ instances[n].pending = "none"
    /\ s # instances[n].spec
    /\ instances' = [instances EXCEPT ![n] =
            [@ EXCEPT !.spec = s, !.pending = "update",
                      !.diff = Changed(instances[n].spec, s)]]
    /\ UNCHANGED <<zones, store, gone, nextUid, today, faults, daemon, log, applies>>

\* The operator restarts: the resource is handled again and its daemon respawned.
ResumeInstance(n) ==
    /\ instances[n].uid # 0
    /\ instances[n].pending = "none"
    /\ instances' = [instances EXCEPT ![n].pending = "resume"]
    /\ daemon' = [daemon EXCEPT ![n] = [NoDaemon EXCEPT !.pc = "loop"]]
    /\ UNCHANGED <<zones, store, gone, nextUid, today, faults, log, applies>>

UserDeleteInstance(n) ==
    /\ instances[n].uid # 0
    /\ instances[n].pending # "delete"
    /\ instances' = [instances EXCEPT ![n].pending = "delete"]
    /\ daemon' = [daemon EXCEPT ![n].stopped = TRUE]
    /\ UNCHANGED <<zones, store, gone, nextUid, today, faults, log, applies>>

CreateInstance(n) ==
    /\ instances[n].pending \in {"create", "resume"}
    /\ \E f \in InstanceFaults :
        LET i == instances[n]
            run == create_bind9_instance(store, i.spec, n, i.uid, f)
        IN  /\ faults' = faults + Failed(run.calls)
            /\ store' = run.st
            /\ log' = LogOf("create_bind9_instance", i.pending, n, i.uid, "", i.spec, run)
            /\ instances' = [instances EXCEPT ![n].pending =
                    IF run.outcome.kind = "TemporaryError" THEN @ ELSE "none"]
    /\ UNCHANGED <<zones, gone, nextUid, today, daemon, applies>>

UpdateInstance(n) ==
    /\ instances[n].pending = "update"
    /\ \E f \in InstanceFaults :
        LET i == instances[n]
            run == update_bind9_instance(store, i.spec, n, i.uid, i.diff, f)
        IN  /\ faults' = faults + Failed(run.calls)
            /\ store' = run.st
            /\ log' = LogOf("update_bind9_instance", i.pending, n, i.uid, "", i.spec, run)
            /\ instances' = [instances EXCEPT ![n] =
                    IF run.outcome.kind = "TemporaryError" THEN @
                    ELSE [@ EXCEPT !.pending = "none", !.diff = {}]]
    /\ UNCHANGED <<zones, gone, nextUid, today, daemon, applies>>

DeleteInstance(n) ==
    /\ instances[n].pending = "delete"
    /\ LET i == instances[n]
           run == delete_bind9_instance(store, i.spec, n)
       IN  /\ store' = run.st
           /\ log' = LogOf("delete_bind9_instance", i.pending, n, i.uid, "", i.spec, run)
           /\ gone' = gone \cup {[kind |-> "Bind9Instance", name |-> n, uid |-> i.uid]}
    /\ instances' = [instances EXCEPT ![n] = NoResource]
    /\ UNCHANGED <<zones, nextUid, today, faults, daemon, applies>>

(***************************************************************************)
(* Zone events.                                                            *)
(***************************************************************************)
UserCreateZone(z, s) ==
    /\ zones[z].uid = 0
    /\ nextUid <= MaxUid
    /\ zones' = [zones EXCEPT ![z] =
            [uid |-> nextUid, spec |-> s, pending |-> "create", diff |-> {}]]
    /\ nextUid' = nextUid + 1
    /\ UNCHANGED <<instances, store, gone, today, faults, daemon, log, applies>>

UserUpdateZone(z, s) ==
    /\ zones[z].uid # 0
    /\ zones[z].pending = "none"
    /\ s # zones[z].spec
    /\ zones' = [zones EXCEPT ![z] =
            [@ EXCEPT !.spec = s, !.pending = "update", !.diff = Changed(zones[z].spec, s)]]
    /\ UNCHANGED <<instances, store, gone, nextUid, today, faults, daemon, log, applies>>

ResumeZone(z) ==
    /\ zones[z].uid # 0
    /\ zones[z].pending = "none"
    /\ zones' = [zones EXCEPT ![z].pending = "resume"]
    /\ UNCHANGED <<instances, store, gone, nextUid, today, faults, daemon, log, applies>>

UserDeleteZone(z) ==
    /\ zones[z].uid # 0
    /\ zones[z].pending # "delete"
    /\ zones' = [zones EXCEPT ![z].pending = "delete"]
    /\ UNCHANGED <<instances, store, gone, nextUid, today, faults, daemon, log, applies>>

\* The zone handler runs for zone z and reads the clock for the second time
\* on the day `now`.
ManageZoneAt(z, now) ==
    /\ zones[z].pending \in {"create", "update", "resume"}
    /\ \E f \in ZoneFaults :
        LET r == zones[z]
            run == manage_dns_zone(store, r.spec, z, r.uid, today, now, f)
        IN  /\ faults' = faults + Failed(run.calls)
            /\ store' = run.st
            /\ today' = now
            /\ log' = LogOf("manage_dns_zone", r.pending, z, r.uid, "", r.spec, run)
            /\ zones' = [zones EXCEPT ![z] =
                    IF run.outcome.kind = "TemporaryError" THEN @
                    ELSE [@ EXCEPT !.pending = "none", !.diff = {}]]
    /\ UNCHANGED <<instances, gone, nextUid, daemon, applies>>

\* The day may change while the handler runs, between its two readings of
\* the clock.
ManageZone(z) == \E now \in {today, today + 1} \cap Days : ManageZoneAt(z, now)

DeleteZone(z) ==
    /\ zones[z].pending = "delete"
    /\ LET r == zones[z]
           run == delete_dns_zone(store, r.spec, z)
       IN  /\ store' = run.st
           /\ log' = LogOf("delete_dns_zone", r.pending, z, r.uid, "", r.spec, run)
           /\ gone' = gone \cup {[kind |-> "DNSZone", name |-> z, uid |-> r.uid]}
    /\ zones' = [zones EXCEPT ![z] = NoResource]
    /\ UNCHANGED <<instances, nextUid, today, faults, daemon, applies>>

(***************************************************************************)
(* Record events: a create or update of a record of any type.              *)
(***************************************************************************)
HandleRecord(r, record_type, s) ==
    /\ LET run == handle_record(store, record_type, s, r)
       IN  /\ store' = run.st
           /\ log' = LogOf("handle_record", "create", r, 0, record_type, s, run)
    /\ UNCHANGED <<instances, zones, gone, nextUid, today, faults, daemon, applies>>

(***************************************************************************)
(* The store's garbage collector, and the calendar.                        *)
(***************************************************************************)
Cascade(o) ==
    /\ o \in gone
    /\ store' = StoreCascade(store, o)
    /\ gone' = gone \ {o}
    /\ UNCHANGED <<instances, zones, nextUid, today, faults, daemon, log, applies>>

Tick ==
    /\ today + 1 \in Days
    /\ today' = today + 1
    /\ UNCHANGED <<instances, zones, store, gone, nextUid, faults, daemon, log, applies>>

(***************************************************************************)
(* The health daemon of instance n, one step at a time.                    *)
(***************************************************************************)
\* A loop that never looks at the stop signal.
DaemonLoop_ignores_stop(n) ==
    /\ daemon[n].pc = "loop"
    /\ daemon' = [daemon EXCEPT ![n].pc = "probe"]
    /\ UNCHANGED <<instances, zones, store, gone, nextUid, today, faults, log, applies>>

\* while not stopped
DaemonLoop(n) ==
    /\ daemon[n].pc = "loop"
    /\ daemon' = [daemon EXCEPT ![n].pc = IF daemon[n].stopped THEN "done" ELSE "probe"]
    /\ UNCHANGED <<instances, zones, store, gone, nextUid, today, faults, log, applies>>

\* the probe returns, or raises, and the daemon starts to wait
DaemonProbe(n, answered, logging) ==
    /\ daemon[n].pc = "probe"
    /\ LET result == test_dns_functionality(answered, logging)
           cycle == monitor_bind9_health(result)
       IN  daemon' = [daemon EXCEPT ![n] =
               [@ EXCEPT !.pc = "wait", !.result = result,
                         !.logged = cycle.logged, !.wait = cycle.wait]]
    /\ UNCHANGED <<instances, zones, store, gone, nextUid, today, faults, log, applies>>

\* stopped.wait returns: the time is up, or the stop signal was set
DaemonWake(n) ==
    /\ daemon[n].pc = "wait"
    /\ daemon' = [daemon EXCEPT ![n].pc = "loop"]
    /\ UNCHANGED <<instances, zones, store, gone, nextUid, today, faults, log, applies>>

DaemonStep(n) ==
    \/ DaemonLoop(n)
    \/ \E answered, logging \in BOOLEAN : DaemonProbe(n, answered, logging)
    \/ DaemonWake(n)

InstanceNext ==
    \/ \E n \in InstanceNames, s \in InstanceSpecs : UserCreateInstance(n, s)
    \/ \E n \in InstanceNames, s \in InstanceSpecs : UserUpdateInstance(n, s)
    \/ \E n \in InstanceNames : ResumeInstance(n)
    \/ \E n \in InstanceNames : UserDeleteInstance(n)
    \/ \E n \in InstanceNames : CreateInstance(n)
    \/ \E n \in InstanceNames : UpdateInstance(n)
    \/ \E n \in InstanceNames : DeleteInstance(n)

ZoneNext ==
    \/ \E z \in ZoneNames, s \in ZoneSpecs : UserCreateZone(z, s)
    \/ \E z \in ZoneNames, s \in ZoneSpecs : UserUpdateZone(z, s)
    \/ \E z \in ZoneNames : ResumeZone(z)
    \/ \E z \in ZoneNames : UserDeleteZone(z)
    \/ \E z \in ZoneNames : ManageZone(z)
    \/ \E z \in ZoneNames : DeleteZone(z)
    \/ Tick

RecordNext ==
    \E r \in RecordNames, t \in RecordTypes, s \in RecordSpecs : HandleRecord(r, t, s)

DaemonNext == \E n \in InstanceNames : DaemonStep(n)

StoreNext == \E o \in gone : Cascade(o)

Next == InstanceNext \/ DaemonNext \/ ZoneNext \/ RecordNext \/ StoreNext

\* The whole operator.
Spec == Init /\ [][Next]_vars

(***************************************************************************)
(* The three kinds of resource are handled independently: their handlers   *)
(* write store objects of different names and read no resource of another  *)
(* kind.  Each kind is explored on its own, with the store's collector.    *)
(***************************************************************************)
InstanceSpec == Init /\ [][InstanceNext \/ DaemonNext \/ StoreNext]_vars

\* The daemon's thread keeps running: its probe and its wait return.  The
\* store's collector is left out here: no step of the daemon reads the store
\* or the set of deleted owners.
InstanceFairSpec ==
    /\ Init
    /\ [][InstanceNext \/ DaemonNext]_vars
    /\ \A n \in InstanceNames : WF_vars(DaemonStep(n))

\* The scheduler redelivers an instance event whose handler raised
\* TemporaryError: the create/resume handler runs again while the event is
\* pending.
InstanceRetrySpec ==
    InstanceSpec /\ \A n \in InstanceNames : WF_vars(CreateInstance(n))

ZoneSpec == Init /\ [][ZoneNext \/ StoreNext]_vars

\* Record events start with a zone that has been reconciled and whose zone
\* file is in the store.
RecordInit ==
    \E z \in ZoneNames, s \in ZoneSpecs :
        LET run == manage_dns_zone(EmptyDict, s, z, 1, 20240101, 20240101, [cm |-> NoFault])
        IN  /\ instances = [n \in InstanceNames |-> NoResource]
            /\ zones = [y \in ZoneNames |->
                   IF y = z THEN [uid |-> 1, spec |-> s, pending |-> "none", diff |-> {}]
                   ELSE NoResource]
            /\ store = run.st
            /\ gone = {}
            /\ nextUid = 2
            /\ today = 20240101
            /\ faults = 0
            /\ daemon = [n \in InstanceNames |-> NoDaemon]
            /\ log = LogOf("manage_dns_zone", "create", z, 1, "", s, run)
            /\ applies = [i \in ApplyIds |-> NoApply]

RecordSpec == RecordInit /\ [][RecordNext]_vars

(***************************************************************************)
(* The three kinds together: instances and zones are created and deleted,  *)
(* records of a checked and an unchecked type are handled, and the store's *)
(* collector runs.  The day does not change.                               *)
(***************************************************************************)
LifecycleRecordTypes == {"A", "TXT"}

LifecycleRecordSpecs ==
    {[zone |-> "example"],
     [zone |-> "example", ipv4Address |-> PyStr(<<"1", "9", "2", ".", "0", ".", "2", ".", "1">>)]}

LifecycleNext ==
    \/ \E n \in InstanceNames, s \in InstanceSpecs : UserCreateInstance(n, s)
    \/ \E n \in InstanceNames : UserDeleteInstance(n)
    \/ \E n \in InstanceNames : CreateInstance(n)
    \/ \E n \in InstanceNames : DeleteInstance(n)
    \/ \E z \in ZoneNames, s \in ZoneSpecs : UserCreateZone(z, s)
    \/ \E z \in ZoneNames : UserDeleteZone(z)
    \/ \E z \in ZoneNames : ManageZoneAt(z, today)
    \/ \E z \in ZoneNames : DeleteZone(z)
    \/ \E r \in RecordNames, t \in LifecycleRecordTypes, s \in LifecycleRecordSpecs :
            HandleRecord(r, t, s)
    \/ StoreNext

LifecycleSpec == Init /\ [][LifecycleNext]_vars

(***************************************************************************)
(* The config synthesizer on its own: it is called with any instance name  *)
(* and any spec whose config section sets or omits each option.            *)
(***************************************************************************)
SynthNames == {"ns1", "test-instance"}

\* The records with any subset of the fields of `full` (dicts that omit keys).
Omitting(full) == {[k \in keys |-> full[k]] : keys \in SUBSET DOMAIN full}

SynthConfigs ==
    UNION {Omitting([recursion |-> r, allowQuery |-> q, allowTransfer |-> t, dnssec |-> d]) :
              r \in BOOLEAN,
              q \in {<<"any">>, <<"10.0.0.0/8", "localhost">>, <<>>},
              t \in {<<"none">>},
              d \in {EmptyDict, [enabled |-> TRUE], [enabled |-> FALSE]}}

SynthSpecs == {EmptyDict} \cup {[config |-> c] : c \in SynthConfigs}

Synthesize(n, s) ==
    /\ log' = LogOf("generate_bind9_config", "call", n, 0, "", s,
                    Run(store, <<>>, generate_bind9_config(s, n), Returned("text", 0)))
    /\ UNCHANGED <<instances, zones, store, gone, nextUid, today, faults, daemon, applies>>

SynthNext == \E n \in SynthNames, s \in SynthSpecs : Synthesize(n, s)

SynthSpec == Init /\ [][SynthNext]_vars

(***************************************************************************)
(* create_configmap one store call at a time.  Two calls for the config    *)
(* map of one instance are in flight; the store may hold a config map left *)
(* by an earlier owner, and owners that have been deleted are collected at *)
(* any moment, between the create and the patch of a call included.        *)
(***************************************************************************)
UpsertName == "ns1"

UpsertKey == <<"ConfigMap", UpsertName \o "-config">>

V1ConfigMap(name, data, uid, cm_type) ==
    [kind |-> "ConfigMap",
     owner_references |-> <<V1OwnerReference(name, uid, FALSE)>>,
     spec |-> [file |-> cm_type \o ".conf", text |-> data]]

UpsertData == {generate_bind9_config(s, UpsertName) : s \in InstanceSpecs}

UpsertOwners == {[kind |-> "Bind9Instance", name |-> UpsertName, uid |-> u] : u \in 1..MaxUid}

\* What the store does to one call, within the budget.
ApplyFaults == {"none"} \cup IF faults >= MaxFaults THEN {} ELSE Faults \ {"none"}

\* The position of the next write in the order in which writes reach the store.
NextWrite ==
    1 + CHOOSE w \in {applies[i].wrote : i \in ApplyIds} :
            \A i \in ApplyIds : applies[i].wrote <= w

UpsertInit ==
    \E d \in [ApplyIds -> UpsertData], u \in [ApplyIds -> 1..MaxUid],
       pre \in 0..MaxUid, d0 \in UpsertData, g \in SUBSET UpsertOwners :
        /\ applies = [i \in ApplyIds |->
               [pc |-> "create", data |-> d[i], uid |-> u[i], raised |-> "none", wrote |-> 0]]
        /\ store = IF pre = 0 THEN EmptyDict
                   ELSE UpsertKey :> V1ConfigMap(UpsertName, d0, pre, "config")
        /\ pre = 0 => d0 = generate_bind9_config(EmptyDict, UpsertName)
        /\ gone = g
        /\ instances = [n \in InstanceNames |-> NoResource]
        /\ zones = [z \in ZoneNames |-> NoResource]
        /\ nextUid = MaxUid + 1
        /\ today = 20240101
        /\ faults = 0
        /\ daemon = [n \in InstanceNames |-> NoDaemon]
        /\ log = NoRun

\* try: create_namespaced_config_map ... except ApiException as e: if e.status == 409
ConfigMapCreate(i) ==
    /\ applies[i].pc = "create"
    /\ \E f \in ApplyFaults :
        LET a == applies[i]
            c == StoreCreate(store, UpsertKey, V1ConfigMap(UpsertName, a.data, a.uid, "config"), f)
        IN  /\ store' = c.st
            /\ faults' = faults + IF f = "none" THEN 0 ELSE 1
            /\ applies' = [applies EXCEPT ![i] =
                    CASE c.status = "Created" ->
                            [a EXCEPT !.pc = "done", !.wrote = NextWrite]
                      [] c.status = "Conflict" -> [a EXCEPT !.pc = "patch"]
                      \* an ApiException that is no conflict: caught, nothing re-raised
                      [] c.status \in ApiExceptions -> [a EXCEPT !.pc = "done"]
                      [] OTHER -> [a EXCEPT !.pc = "done", !.raised = c.status]]
    /\ UNCHANGED <<instances, zones, gone, nextUid, today, daemon, log>>

\* patch_namespaced_config_map, called inside the except block
ConfigMapPatch(i) ==
    /\ applies[i].pc = "patch"
    /\ \E f \in ApplyFaults :
        LET a == applies[i]
            p == StorePatch(store, UpsertKey, V1ConfigMap(UpsertName, a.data, a.uid, "config"), f)
        IN  /\ store' = p.st
            /\ faults' = faults + IF f = "none" THEN 0 ELSE 1
            /\ applies' = [applies EXCEPT ![i] =
                    IF p.status = "Patched"
                    THEN [a EXCEPT !.pc = "done", !.wrote = NextWrite]
                    ELSE [a EXCEPT !.pc = "done", !.raised = p.status]]
    /\ UNCHANGED <<instances, zones, gone, nextUid, today, daemon, log>>

UpsertNext ==
    \/ \E i \in ApplyIds : ConfigMapCreate(i)
    \/ \E i \in ApplyIds : ConfigMapPatch(i)
    \/ StoreNext

UpsertSpec == UpsertInit /\ [][UpsertNext]_vars

(***************************************************************************)
(* Properties.                                                             *)
(***************************************************************************)
\* A store call that failed: a create that ended in anything but success or
\* Conflict, a patch that ended in anything but success.
StoreFailure(c) ==
    \/ c.api = "create" /\ c.status \notin {"Created", "Conflict"}
    \/ c.api = "patch" /\ c.status # "Patched"

InstanceHandlers == {"create_bind9_instance", "update_bind9_instance"}

\* C1: when a store call of an Instance create/resume/update handler fails
\* (a create with anything but Conflict, or the patch that follows), the
\* handler's outcome is TemporaryError with delay 30; it is never Ready.
C1_StoreFailureIsRetryable ==
    (/\ log.handler \in InstanceHandlers
     /\ \E i \in 1..Len(log.calls) : StoreFailure(log.calls[i]))
    => log.outcome = TemporaryError(30)

\* C2: a record handler validates first; when the validator rejects the spec
\* the outcome is PermanentError (no retry delay), update_zone_file is not
\* called and the store is left as it was.
C2_InvalidRecordIsPermanent ==
    [][log'.handler = "handle_record" =>
        /\ log'.calls[1].api = "validate"
        /\ log'.calls[1].status = "ValueError" =>
            /\ log'.outcome = PermanentError
            /\ \A i \in 1..Len(log'.calls) : log'.calls[i].api # "update_zone_file"
            /\ store' = store]_vars

\* An MX record without mailServer was rejected while a zone file is stored.
C2_Witness ==
    /\ log.handler = "handle_record"
    /\ log.rtype = "MX"
    /\ log.calls[1].status = "ValueError"
    /\ log.outcome = PermanentError
    /\ DOMAIN store # {}

\* A run of the create/resume handler in which no store call failed.
CleanPass(l) ==
    /\ l.handler = "create_bind9_instance"
    /\ l.outcome.kind = "Ready"
    /\ \A i \in 1..Len(l.calls) : ~StoreFailure(l.calls[i])

\* C3: when the create/resume handler runs right after a run of it with the
\* same spec (the store is as that run left it) and no store call fails in
\* either, it synthesizes the same config text and leaves the store as it is.
C3_CreateIsIdempotent ==
    [][\A n \in InstanceNames :
        (/\ CleanPass(log) /\ log.name = n /\ store = log.st
         /\ CleanPass(log') /\ log'.spec = log.spec
         /\ CreateInstance(n))
        => (log'.text = log.text /\ store' = store)]_vars

\* A second pass has run: every create met a Conflict, and the store is as
\* the pass before it had left it.
C3_Witness ==
    /\ CleanPass(log)
    /\ log.event = "resume"
    /\ Len(log.calls) = 5
    /\ \A i \in 1..Len(log.calls) : log.calls[i].status \in {"Conflict", "Patched"}
    /\ store = log.st

\* C4: two consecutive reconciliations of a zone whose spec has not changed,
\* both ending Active, write the same zone file, whenever they run.
C4_ZoneFileIsPure ==
    [][\A z \in ZoneNames :
        (/\ log.handler = "manage_dns_zone" /\ log.name = z
         /\ log.outcome.kind = "Active" /\ log'.outcome.kind = "Active"
         /\ log.uid = log'.uid /\ log.spec = log'.spec
         /\ ManageZone(z))
        => log'.text = log.text]_vars

\* The kind of the resource an artifact is written for: a zone file for a
\* DNSZone, everything else for a Bind9Instance.
WrittenForKind(a) ==
    IF a.kind = "ConfigMap" /\ a.spec.file = "zone.conf" THEN "DNSZone" ELSE "Bind9Instance"

\* The resource an owner reference names exists, or has been deleted and the
\* collector has not run for it yet.
Alive(r) ==
    \/ r.kind = "Bind9Instance" /\ r.name \in InstanceNames /\ instances[r.name].uid = r.uid
    \/ r.kind = "DNSZone" /\ r.name \in ZoneNames /\ zones[r.name].uid = r.uid
    \/ [kind |-> r.kind, name |-> r.name, uid |-> r.uid] \in gone

\* C5: every stored artifact has exactly one owner reference, which names the
\* resource it was written for by kind, name and uid; once that resource is
\* deleted and collected, the artifact is gone.
C5_OwnedByItsResource ==
    \A k \in DOMAIN store :
        /\ Len(store[k].owner_references) = 1
        /\ store[k].owner_references[1].kind = WrittenForKind(store[k])
        /\ Alive(store[k].owner_references[1])

ReloadAt(l, i) ==
    /\ l.calls[i].api = "reload"
    /\ l.calls[i].target = Get(l.spec, "bind9InstanceRef", "default")

\* C6: a zone reconciliation that ends Active has signalled the referenced
\* instance to reload, after its zone file was written to the store; a zone
\* deletion has signalled it too; an instance handler signals nothing.
C6_ReloadFollowsApply ==
    /\ (log.handler = "manage_dns_zone" /\ log.outcome.kind = "Active") =>
        \E i \in 1..Len(log.calls) :
            /\ ReloadAt(log, i)
            /\ \E j \in 1..(i - 1) :
                /\ log.calls[j].target = log.name \o "-zone"
                /\ log.calls[j].status \in {"Created", "Patched"}
    /\ log.handler = "delete_dns_zone" =>
        \E i \in 1..Len(log.calls) : ReloadAt(log, i)
    /\ log.handler \in InstanceHandlers \cup {"delete_bind9_instance"} =>
        \A i \in 1..Len(log.calls) : log.calls[i].api # "reload"

\* C7: when a record handler has reported active, the zone file of the zone
\* the record refers to is in the store and holds the record's entry.
C7_ActiveRecordIsInZoneFile ==
    (log.handler = "handle_record" /\ log.outcome.kind = "active") =>
        LET key == <<"ConfigMap", Get(log.spec, "zone", "None") \o "-zone">>
        IN  /\ key \in DOMAIN store
            /\ \E e \in store[key].spec.text.entries :
                e.name = log.name /\ e.rtype = log.rtype

\* C8: while the daemon waits, the wait is 60 after a probe that succeeded
\* and 120, with the failure logged, after a probe that failed; the daemon
\* ends only when it is stopped.
C8_ProbeIntervalPolicy ==
    \A n \in InstanceNames :
        /\ daemon[n].pc = "wait" =>
            /\ daemon[n].result = "True" => daemon[n].wait = 60
            /\ daemon[n].result = "False" =>
                daemon[n].wait = 120 /\ daemon[n].logged # "none"
            /\ daemon[n].wait = 120 => daemon[n].result # "True"
        /\ daemon[n].pc = "done" => daemon[n].stopped

\* C9: once the stop signal is set the daemon starts no probe, and it ends;
\* no step of the daemon changes the store.
C9_DaemonStops ==
    /\ [][\A n \in InstanceNames :
            daemon[n].stopped => ~(daemon[n].pc # "probe" /\ daemon'[n].pc = "probe")]_vars
    /\ \A n \in InstanceNames : daemon[n].stopped ~> daemon[n].pc = "done"
    /\ [][DaemonNext => store' = store]_vars

\* The daemon has ended after a stop signal that came while it was probing
\* or in the 120-unit wait that followed.
C9_Witness ==
    \E n \in InstanceNames :
        daemon[n].stopped /\ daemon[n].pc = "done" /\ daemon[n].wait = 120

DigitValue(c) == CHOOSE i \in 0..9 : <<"0", "1", "2", "3", "4", "5", "6", "7", "8", "9">>[i + 1] = c

RECURSIVE Decimal(_)
Decimal(ds) ==
    IF Len(ds) = 0 THEN 0
    ELSE Decimal(SubSeq(ds, 1, Len(ds) - 1)) * 10 + DigitValue(ds[Len(ds)])

\* A dotted quad: four decimal numbers of one to three digits, each at most
\* 255, separated by dots.
WellFormedIPv4(s) ==
    \E i, j, k \in 1..Len(s) :
        /\ i < j /\ j < k
        /\ s[i] = "." /\ s[j] = "." /\ s[k] = "."
        /\ \A part \in {SubSeq(s, 1, i - 1), SubSeq(s, i + 1, j - 1),
                        SubSeq(s, j + 1, k - 1), SubSeq(s, k + 1, Len(s))} :
            /\ Len(part) \in 1..3
            /\ \A x \in 1..Len(part) : part[x] \in Digits
            /\ Decimal(part) <= 255

\* C10: an A record whose ipv4Address is a string, or absent, is accepted
\* when the address is a well-formed dotted quad, and rejected as invalid
\* when it is absent, empty or malformed.
C10_ARecordValidation ==
    LET ipv4 == Get(log.spec, "ipv4Address", PyNone)
    IN  (log.handler = "handle_record" /\ log.rtype = "A" /\ ipv4.t # "int") =>
            IF ipv4.t = "str" /\ WellFormedIPv4(ipv4.v)
            THEN log.calls[1].status = "ok"
            ELSE log.calls[1].status = "ValueError"

\* A field that is absent, or holds one of Python's empty values ("" or 0).
AbsentOrEmpty(spec, field) ==
    \/ field \notin DOMAIN spec
    \/ spec[field].t = "NoneType"
    \/ spec[field].t = "str" /\ spec[field].v = <<>>
    \/ spec[field].t = "int" /\ spec[field].n = 0

\* C11: an AAAA record is rejected exactly when ipv6Address is absent or
\* empty, a CNAME record exactly when target is absent or empty, an MX
\* record exactly when priority or mailServer is not present; a record of
\* any of the six types without a check is accepted whatever its spec.
C11_OtherTypesValidation ==
    log.handler = "handle_record" =>
        LET invalid == log.calls[1].status = "ValueError"
            ok == log.calls[1].status = "ok"
        IN  /\ log.calls[1].api = "validate"
            /\ log.rtype = "AAAA" =>
                    /\ invalid <=> AbsentOrEmpty(log.spec, "ipv6Address")
                    /\ invalid \/ ok
            /\ log.rtype = "CNAME" =>
                    /\ invalid <=> AbsentOrEmpty(log.spec, "target")
                    /\ invalid \/ ok
            /\ log.rtype = "MX" =>
                    /\ invalid <=> ~({"priority", "mailServer"} \subseteq DOMAIN log.spec)
                    /\ invalid \/ ok
            /\ log.rtype \in {"TXT", "NS", "SRV", "PTR", "CAA", "NAPTR"} => ok

\* An MX record that names a mail server and no priority was rejected.
C11_Witness ==
    /\ log.handler = "handle_record"
    /\ log.rtype = "MX"
    /\ "mailServer" \in DOMAIN log.spec
    /\ "priority" \notin DOMAIN log.spec
    /\ log.calls[1].status = "ValueError"

\* The artifacts a run tried to create, in the order of its calls.
Applied(l) ==
    LET IsCreate(c) == c.api = "create"
        creates == SelectSeq(l.calls, IsCreate)
    IN  [i \in 1..Len(creates) |-> creates[i].target]

\* C12: an instance create, resume or update handler applies the config
\* map, then the stateful set, then the service; it reports Ready only when
\* it has applied all three in that order, and when it raises, the call that
\* failed is the last one it made.
C12_ApplyOrder ==
    log.handler \in InstanceHandlers =>
        LET order == <<log.name \o "-config", log.name \o "-bind9", log.name \o "-dns">>
        IN  /\ Len(Applied(log)) <= 3
            /\ \A i \in 1..Len(Applied(log)) : Applied(log)[i] = order[i]
            /\ log.outcome.kind = "Ready" => Applied(log) = order
            /\ log.outcome.kind = "TemporaryError" =>
                    /\ StoreFailure(log.calls[Len(log.calls)])
                    /\ \A i \in 1..(Len(log.calls) - 1) :
                            log.calls[i].status # "Timeout"

\* C13: the synthesized config is the same for the same spec and name; it
\* names the instance, says "recursion yes" when the spec turns recursion on
\* and "recursion no" when it turns it off or says nothing, and its
\* allow-query clause lists the spec's allowQuery entries, or "any" when the
\* spec has none.
C13_ConfigSynthesis ==
    /\ [][(log.handler = "generate_bind9_config" /\ log'.handler = log.handler
            /\ log'.spec = log.spec /\ log'.name = log.name)
           => log'.text = log.text]_vars
    /\ [](log.handler = "generate_bind9_config" =>
            LET config == IF "config" \in DOMAIN log.spec THEN log.spec.config ELSE EmptyDict
            IN  /\ log.text.instance_name = log.name
                /\ log.text.recursion =
                        IF "recursion" \in DOMAIN config /\ config.recursion THEN "yes" ELSE "no"
                /\ log.text.allow_query =
                        IF "allowQuery" \in DOMAIN config
                        THEN Join(config.allowQuery, " ") ELSE "any")

\* The spec of the repository's test was synthesized for "test-instance".
C13_Witness ==
    /\ log.handler = "generate_bind9_config"
    /\ log.name = "test-instance"
    /\ log.spec = [config |-> [recursion |-> FALSE, allowQuery |-> <<"any">>,
                               allowTransfer |-> <<"none">>]]
    /\ log.text.recursion = "no"

\* A run of an instance create, resume or update handler that ended Ready
\* and in which no store call failed.
CleanReady(l) ==
    /\ l.handler \in InstanceHandlers
    /\ l.outcome.kind = "Ready"
    /\ \A i \in 1..Len(l.calls) : ~StoreFailure(l.calls[i])

\* C14: when the last create or update event of an instance has ended Ready,
\* the stored config map holds the config synthesized from the instance's
\* spec, and the stored stateful set has the replica count and the image
\* (version) of that spec.
C14_UpdateConverges ==
    \A n \in InstanceNames :
        (/\ CleanReady(log) /\ log.name = n /\ store = log.st
         /\ instances[n].uid = log.uid /\ instances[n].spec = log.spec
         /\ instances[n].pending = "none")
        => LET cm == <<"ConfigMap", n \o "-config">>
               sts == <<"StatefulSet", n \o "-bind9">>
           IN  /\ cm \in DOMAIN store
               /\ store[cm].spec.text = log.text
               /\ sts \in DOMAIN store
               /\ store[sts].spec.replicas = Get(log.spec, "replicas", 1)
               /\ store[sts].spec.image =
                      Get(log.spec, "version", "internetsystemsconsortium/bind9:9.18")

\* Every TemporaryError carries the delay 30.
C15_FixedDelay == log.outcome.kind = "TemporaryError" => log.outcome.delay = 30

\* When the create/resume handler has reported Ready, the config map, the
\* stateful set and the service of the instance are in the store.
C15_ReadyHasArtifacts ==
    (/\ log.handler = "create_bind9_instance"
     /\ log.outcome.kind = "Ready"
     /\ store = log.st)
    => {<<"ConfigMap", log.name \o "-config">>,
        <<"StatefulSet", log.name \o "-bind9">>,
        <<"Service", log.name \o "-dns">>} \subseteq DOMAIN store

\* A pending create event does not stay pending.
C15_CreateCompletes ==
    \A n \in InstanceNames :
        instances[n].pending = "create" ~> instances[n].pending # "create"

\* C15: every TemporaryError carries the delay 30; while the store fails
\* only a bounded number of calls and the event is redelivered, a create
\* event does not stay pending, and when its handler reports Ready the
\* config map, the stateful set and the service are all in the store.
C15_ConvergesUnderFailure ==
    /\ []C15_FixedDelay
    /\ []C15_ReadyHasArtifacts
    /\ C15_CreateCompletes

\* The type-specific field of a record is malformed: absent or empty, or
\* (an IPv4 address) not a string or of the wrong syntax.
MalformedField(rtype, spec) ==
    CASE rtype = "A" ->
            \/ AbsentOrEmpty(spec, "ipv4Address")
            \/ spec.ipv4Address.t # "str"
            \/ ~DottedQuadSyntax(spec.ipv4Address.v)
      [] rtype = "AAAA" -> AbsentOrEmpty(spec, "ipv6Address")
      [] rtype = "CNAME" -> AbsentOrEmpty(spec, "target")
      [] rtype = "MX" -> ~({"priority", "mailServer"} \subseteq DOMAIN spec)
      [] OTHER -> FALSE

\* C16: a record event whose type-specific field is malformed ends in
\* PermanentError; a record handler raises TemporaryError (delay 30) only
\* when the record's own fields are well formed.
C16_InputErrorsArePermanent ==
    log.handler = "handle_record" =>
        /\ MalformedField(log.rtype, log.spec) => log.outcome = PermanentError
        /\ log.outcome.kind = "TemporaryError" =>
                /\ log.outcome.delay = 30
                /\ ~MalformedField(log.rtype, log.spec)

\* Every call in flight has returned or raised.
AllReturned(ap) == \A i \in ApplyIds : ap[i].pc = "done"

\* Every call has returned without raising.
NoneRaised(ap) == \A i \in ApplyIds : ap[i].pc = "done" /\ ap[i].raised = "none"

\* A call that has returned has written its content to the store or raised.
C17_WrittenOrRaised ==
    \A i \in ApplyIds :
        applies[i].pc = "done" => (applies[i].wrote > 0 \/ applies[i].raised # "none")

\* At the step with which the last of the calls returns, none having
\* raised, the config map is in the store with the content of the call that
\* wrote last.
C17_LastWriteWins ==
    (~AllReturned(applies) /\ NoneRaised(applies'))
    => /\ UpsertKey \in DOMAIN store'
       /\ \E i \in ApplyIds :
            /\ \A j \in ApplyIds : applies'[j].wrote <= applies'[i].wrote
            /\ store'[UpsertKey] = V1ConfigMap(UpsertName, applies'[i].data, applies'[i].uid, "config")

\* C17: however two create_configmap calls for one config map and the
\* collection of deleted owners interleave, a call that returns has written
\* its content or raised; when both have returned without raising, the config
\* map exists and holds the content of the call whose write came last.
C17_UpsertUnderInterleaving ==
    /\ []C17_WrittenOrRaised
    /\ [][C17_LastWriteWins]_vars

\* The call of a run that applied the service of its instance, if any.
ServiceCalls(l) == {i \in 1..Len(l.calls) : l.calls[i].target = l.name \o "-dns"}

\* C18: applying the service when one is stored is no failure and leaves it
\* as it is; a create that fails in any other way is raised to the handler
\* (TemporaryError); no step but the collector's changes a stored service.
C18_ServiceIsCreateIfAbsent ==
    /\ [](log.handler \in InstanceHandlers =>
            \A i \in ServiceCalls(log) :
                /\ log.calls[i].api = "create"
                /\ log.calls[i].status \in {"Created", "Conflict"} =>
                        log.outcome.kind = "Ready"
                /\ log.calls[i].status \in {"ApiError", "Timeout"} =>
                        log.outcome = TemporaryError(30))
    /\ [][\A n \in InstanceNames :
            LET k == <<"Service", n \o "-dns">>
            IN  (k \in DOMAIN store /\ k \in DOMAIN store') => store'[k] = store[k]]_vars

\* The create/resume handler met the service of an earlier instance of the
\* same name, reported Ready, and the service is still that instance's.
C18_Witness ==
    /\ log.handler = "create_bind9_instance"
    /\ log.outcome.kind = "Ready"
    /\ \E i \in ServiceCalls(log) : log.calls[i].status = "Conflict"
    /\ <<"Service", log.name \o "-dns">> \in DOMAIN store
    /\ store[<<"Service", log.name \o "-dns">>].owner_references[1].uid # log.uid

\* C19: no handler deletes from the store: the instance delete handler makes
\* no store call and reports completion, the zone delete handler only
\* signals a reload, and a step that removes an artifact is a step of the
\* store's collector.
C19_NoHandlerDeletes ==
    /\ [](\A i \in 1..Len(log.calls) : log.calls[i].api # "delete")
    /\ [][\A n \in InstanceNames :
            (instances[n].pending = "delete" /\ DeleteInstance(n)) =>
                /\ log'.calls = <<>>
                /\ log'.outcome = Returned("deleted", 0)
                /\ store' = store]_vars
    /\ [][\A z \in ZoneNames :
            (zones[z].pending = "delete" /\ DeleteZone(z)) =>
                /\ \A i \in 1..Len(log'.calls) : log'.calls[i].api = "reload"
                /\ store' = store]_vars
    /\ [][~(DOMAIN store \subseteq DOMAIN store') =>
            \E o \in gone : gone' = gone \ {o} /\ store' = StoreCascade(store, o)]_vars

\* The zone delete handler has run and the zone file is still in the store,
\* next to the artifacts of an instance.
C19_Witness ==
    /\ log.handler = "delete_dns_zone"
    /\ <<"ConfigMap", log.name \o "-zone">> \in DOMAIN store
    /\ \E n \in InstanceNames : <<"StatefulSet", n \o "-bind9">> \in DOMAIN store

\* The zones that refer to instance n.
ZonesOf(n) ==
    {z \in ZoneNames : zones[z].uid # 0 /\ Get(zones[z].spec, "bind9InstanceRef", "default") = n}

\* C20: when an instance has reported Ready and the zones that refer to it
\* (there is one at least) have reported Active, every object its stateful
\* set names is in the store: the config maps of its volumes (<n>-config and
\* <n>-zones) and the service of its service_name (<n>-headless).
C20_WorkloadReferencesExist ==
    \A n \in InstanceNames :
        LET sts == <<"StatefulSet", n \o "-bind9">>
        IN  (/\ instances[n].uid # 0 /\ instances[n].pending = "none"
             /\ sts \in DOMAIN store
             /\ ZonesOf(n) # {}
             /\ \A z \in ZonesOf(n) : zones[z].pending = "none")
            => /\ \A i \in 1..Len(store[sts].spec.volumes) :
                    <<"ConfigMap", store[sts].spec.volumes[i]>> \in DOMAIN store
               /\ <<"Service", store[sts].spec.service_name>> \in DOMAIN store

\* C21: a run of the zone handler that ends Active, with the day the same at
\* both of its readings of the clock, returns in its status the serial of the
\* zone file it wrote in that run, for a spec that gives soaRecord.serial and
\* for a spec that leaves it out.
C21_SerialConsistency ==
    [][\A z \in ZoneNames :
        (/\ log'.handler = "manage_dns_zone" /\ log'.outcome.kind = "Active"
         /\ ManageZoneAt(z, today))
        => log'.outcome.serial = log'.text.serial]_vars

====
